---- MODULE Spec2Model ----
(***************************************************************************)
(* Webhook delivery (src/src/webhooks.py, WebhookManager) and the circuit  *)
(* breaker (src/src/advanced_pro.py, CircuitBreaker) as state machines.    *)
(*                                                                         *)
(* Spec        : WebhookManager; registry operations happen while no       *)
(*               trigger_event coroutine is suspended.                     *)
(* BreakerSpec : one CircuitBreaker called by several callers whose calls  *)
(*               may overlap.                                              *)
(*                                                                         *)
(* Optional values (Optional[...] in the source) are sequences: <<>> is    *)
(* None and <<v>> is the value v.                                          *)
(***************************************************************************)
EXTENDS Integers, Sequences, FiniteSets, TLC

VARIABLES
    webhooks,           \* WebhookManager.webhooks: dict in insertion order
    deliveries,         \* WebhookManager.deliveries: list of WebhookDelivery
    tasks,              \* the running trigger_event coroutines
    nextWebhookId,      \* uuid4 of the next Webhook
    nextEventId,        \* uuid4 of the next WebhookEvent
    state,              \* CircuitBreaker.state
    failure_count,      \* CircuitBreaker.failure_count
    last_failure_time,  \* CircuitBreaker.last_failure_time
    failure_threshold,  \* CircuitBreaker.failure_threshold
    recovery_timeout,   \* CircuitBreaker.recovery_timeout
    now,                \* datetime.now(), in seconds
    callers,            \* the callers of CircuitBreaker.call
    calls,              \* calls of CircuitBreaker.call begun so far
    history,            \* outcomes of the protected function, oldest first
    rate,               \* RateLimiter.rate
    period,             \* RateLimiter.period
    tokens,             \* RateLimiter.tokens, in units of 1/period token
    last_update,        \* RateLimiter.last_update
    threads,            \* the threads inside RateLimiter.is_allowed
    log,                \* the is_allowed calls that returned, oldest first
    subscribers,        \* EventStream.subscribers
    events,             \* EventStream.events
    emit,               \* the emit_event call in progress or last finished
    nextEmitId          \* id of the next event given to emit_event

whVars == <<webhooks, deliveries, tasks, nextWebhookId, nextEventId>>
cbVars == <<state, failure_count, last_failure_time, failure_threshold,
            recovery_timeout, now, callers, calls, history>>
rlVars == <<rate, period, tokens, last_update, threads, log>>
esVars == <<subscribers, events, emit, nextEmitId>>
vars == <<webhooks, deliveries, tasks, nextWebhookId, nextEventId,
          state, failure_count, last_failure_time, failure_threshold,
          recovery_timeout, now, callers, calls, history,
          rate, period, tokens, last_update, threads, log,
          subscribers, events, emit, nextEmitId>>

(***************************************************************************)
(* Bounds of the model.                                                    *)
(***************************************************************************)
MaxWebhooks == 2        \* register_webhook calls in a run
MaxRegistered == 3      \* register_webhook calls in a run about their order
MaxEvents == 1          \* trigger_event calls in a run
MaxTasks == 1           \* trigger_event coroutines alive at once
MaxRetry == 3           \* largest retry_count a subscriber is given
MaxCallers == 2         \* callers of one breaker whose calls may overlap
MaxCalls == 4           \* calls of CircuitBreaker.call in a run
MaxThreshold == 2       \* largest failure_threshold a breaker is built with
MaxRecovery == 2        \* largest recovery_timeout, in seconds
MaxClock == 3           \* seconds of clock time in a run
MaxRate == 2            \* largest rate (capacity) a bucket is built with
MaxPeriod == 2          \* largest period, in seconds
MaxAsked == 6           \* is_allowed calls in a run
MaxThreads == 2         \* threads whose is_allowed calls may interleave
MaxCallbacks == 2       \* distinct callbacks given to subscribe
MaxSubscribers == 3     \* length of EventStream.subscribers
MaxEmits == 2           \* events given to emit_event in a run
MaxLimit == 3           \* largest limit given to get_events

DefaultRetryCount == 3  \* Webhook.retry_count
DefaultFailureThreshold == 5    \* CircuitBreaker.__init__ failure_threshold
DefaultRecoveryTimeout == 60    \* CircuitBreaker.__init__ recovery_timeout
DefaultPeriod == 60             \* RateLimiter.__init__ period

None == <<>>
Some(v) == <<v>>

\* `if x:` on an Optional[str]: None and "" are false.
Truthy(opt) == opt # None /\ opt[1] # ""

Tasks == 1..MaxTasks
EventTypes == {"task.completed", "task.failed"}
\* the event_types lists given to register_webhook
TypeLists == {{"task.completed"}, {"task.completed", "task.failed"}}
Urls == {"http://a.example/hook"}
StatusCodes == {200, 404, 503}
\* str(e) of the exception the outbound call raised; httpx timeouts often
\* carry an empty message.
ExcMessages == {"", "connect failed"}
Responses == [kind : {"status"}, code : StatusCodes, msg : {""}]
                \cup [kind : {"exception"}, code : {0}, msg : ExcMessages]

Stamp == "ts"           \* an ISO-8601 timestamp string (never empty)

RECURSIVE Pow2(_)
Pow2(k) == IF k = 0 THEN 1 ELSE 2 * Pow2(k - 1)

HttpError(code) == "HTTP " \o ToString(code)

(***************************************************************************)
(* Data model.                                                             *)
(***************************************************************************)
\* the secret of a subscription: the one given to register_webhook or a
\* uuid4 string; here one string per subscription, never empty
SecretOf(id) == "secret-" \o ToString(id)

Webhook(id, url, event_types) ==
    [id |-> id, url |-> url, event_types |-> event_types, active |-> TRUE,
     secret |-> SecretOf(id), retry_count |-> DefaultRetryCount]

WebhookEvent(id, type) == [id |-> id, type |-> type]

\* calls, answers and waits are history fields of the model: the outbound
\* calls started for the delivery, the endpoint's answers to them, and the
\* asyncio.sleep delays taken between them.
WebhookDelivery(webhook_id, event_id) ==
    [webhook_id |-> webhook_id, event_id |-> event_id, status_code |-> None,
     error |-> None, attempts |-> 0, next_retry |-> None,
     completed_at |-> None, calls |-> 0, answers |-> <<>>, waits |-> <<>>]

NoEvent == WebhookEvent(0, "")
NoWebhook == Webhook(0, "", {})
\* registry and cancelled are history fields of the model: the registry
\* when trigger_event was called, and whether the call has been cancelled.
IdleTask ==
    [pc |-> "idle", event |-> NoEvent, it |-> 0, webhook |-> NoWebhook,
     delivery |-> WebhookDelivery(0, 0), attempt |-> 0, deliveries |-> <<>>,
     registry |-> <<>>, cancelled |-> FALSE]

Suspended(t) == tasks[t].pc \in {"post", "sleep"}
NoneSuspended == \A t \in Tasks : ~Suspended(t)

IndexOf(id) ==
    IF \E i \in 1..Len(webhooks) : webhooks[i].id = id
    THEN CHOOSE i \in 1..Len(webhooks) : webhooks[i].id = id
    ELSE 0

Referenced(id) ==
    \/ \E i \in 1..Len(deliveries) : deliveries[i].webhook_id = id
    \/ \E t \in Tasks : tasks[t].pc # "idle" /\ tasks[t].webhook.id = id

(***************************************************************************)
(* Registry operations.                                                    *)
(***************************************************************************)
\* register_webhook that puts the new subscription before the others
RegisterWebhook_Prepends(url, event_types) ==
    /\ webhooks' = <<Webhook(nextWebhookId, url, event_types)>> \o webhooks
    /\ nextWebhookId' = nextWebhookId + 1
    /\ UNCHANGED <<deliveries, tasks, nextEventId, cbVars, rlVars, esVars>>

\* register_webhook: the new subscription gets an id no other subscription
\* has or had (uuid4; here the ids count the registrations) and is
\* inserted in the dict behind the others
RegisterWebhook(url, event_types) ==
    /\ webhooks' = Append(webhooks, Webhook(nextWebhookId, url, event_types))
    /\ nextWebhookId' = nextWebhookId + 1
    /\ UNCHANGED <<deliveries, tasks, nextEventId, cbVars, rlVars, esVars>>

\* unregister_webhook that returns True for every id
Unregistered_AlwaysTrue(ws, id) ==
    [webhooks |-> SelectSeq(ws, LAMBDA w : w.id # id), returned |-> TRUE]

\* unregister_webhook(id) on the registry ws: the registry it leaves and
\* the value it returns
Unregistered(ws, id) ==
    IF \E i \in 1..Len(ws) : ws[i].id = id
    THEN [webhooks |-> SelectSeq(ws, LAMBDA w : w.id # id), returned |-> TRUE]
    ELSE [webhooks |-> ws, returned |-> FALSE]

\* `del self.webhooks[webhook_id]` leaves the entry's slot of the dict
\* unused, so an iteration that has passed the slot stands one position
\* further back in the entries that remain.  (The dict is not resized: it
\* never receives more than MaxWebhooks insertions.)
UnregisterWebhook(id) ==
    /\ webhooks' = Unregistered(webhooks, id).webhooks
    /\ tasks' = [t \in Tasks |->
            IF Suspended(t) /\ IndexOf(id) # 0 /\ IndexOf(id) < tasks[t].it
            THEN [tasks[t] EXCEPT !.it = @ - 1]
            ELSE tasks[t]]
    /\ UNCHANGED <<deliveries, nextWebhookId, nextEventId, cbVars, rlVars, esVars>>

\* webhook.active = value, by the holder of the Webhook object
SetActive(id, value) ==
    /\ IndexOf(id) # 0
    /\ webhooks[IndexOf(id)].active # value
    /\ webhooks' = [webhooks EXCEPT ![IndexOf(id)].active = value]
    /\ UNCHANGED <<deliveries, tasks, nextWebhookId, nextEventId, cbVars, rlVars, esVars>>

\* webhook.retry_count = n, by the holder of the Webhook object, before the
\* subscription has been used for a delivery
SetRetryCount(id, n) ==
    /\ IndexOf(id) # 0
    /\ ~Referenced(id)
    /\ webhooks[IndexOf(id)].retry_count # n
    /\ webhooks' = [webhooks EXCEPT ![IndexOf(id)].retry_count = n]
    /\ UNCHANGED <<deliveries, tasks, nextWebhookId, nextEventId, cbVars, rlVars, esVars>>

(***************************************************************************)
(* trigger_event and _deliver_webhook.  Code between two awaits runs       *)
(* without interruption on the event loop, so a step of the model runs     *)
(* from one await (client.post, asyncio.sleep) to the next.                *)
(***************************************************************************)
\* the filter without its `if not webhook.active: continue`
Matches_IgnoresActive(w, e) == e.type \in w.event_types

\* the loop header's filter: active and subscribed to the event's type
Matches(w, e) == w.active /\ e.type \in w.event_types

\* first position >= from of the dict iteration that passes the filter
NextMatch(ws, e, from) ==
    IF \E i \in from..Len(ws) : Matches(ws[i], e)
    THEN CHOOSE i \in from..Len(ws) :
            /\ Matches(ws[i], e)
            /\ \A j \in from..(i - 1) : ~Matches(ws[j], e)
    ELSE 0

\* delivery.attempts = attempt, the loop index taken for the attempt number
AttemptStarted_LoopIndex(d, attempt) ==
    [d EXCEPT !.attempts = attempt, !.calls = @ + 1]

\* top of the attempt loop: delivery.attempts = attempt + 1, and the
\* outbound call is started
AttemptStarted(d, attempt) ==
    [d EXCEPT !.attempts = attempt + 1, !.calls = @ + 1]

\* the coroutine enters iteration `attempt` of the attempt loop and awaits
\* client.post
BeginAttempt(tk, attempt) ==
    [tk EXCEPT !.pc = "post",
               !.attempt = attempt,
               !.delivery = AttemptStarted(@, attempt)]

\* the for loop left at the first delivery that did not succeed
Iterate_StopsAfterFailure(tk, ws) ==
    LET i == NextMatch(ws, tk.event, tk.it)
        n == Len(tk.deliveries)
    IN
    IF Len(ws) # Len(tk.registry)
    THEN [tk EXCEPT !.pc = "raised"]
    ELSE IF i = 0 \/ (n > 0 /\ tk.deliveries[n].completed_at = None)
    THEN [tk EXCEPT !.pc = "done", !.it = Len(ws) + 1]
    ELSE BeginAttempt([tk EXCEPT !.it = i + 1,
                                 !.webhook = ws[i],
                                 !.delivery = WebhookDelivery(ws[i].id, tk.event.id)],
                      0)

\* the for loop of trigger_event from position tk.it on: skip to the next
\* matching webhook, create its delivery record and start attempt 0, or
\* leave the loop and return.  The iterator of self.webhooks.values()
\* first compares the dict's size with the size it had when the loop
\* began (tk.registry) and raises RuntimeError when they differ.
Iterate(tk, ws) ==
    LET i == NextMatch(ws, tk.event, tk.it) IN
    IF Len(ws) # Len(tk.registry)
    THEN [tk EXCEPT !.pc = "raised"]
    ELSE IF i = 0
    THEN [tk EXCEPT !.pc = "done", !.it = Len(ws) + 1]
    ELSE BeginAttempt([tk EXCEPT !.it = i + 1,
                                 !.webhook = ws[i],
                                 !.delivery = WebhookDelivery(ws[i].id, tk.event.id)],
                      0)

\* asyncio.sleep(2) in place of asyncio.sleep(2 ** attempt)
OnResponse_ConstantDelay(w, attempt, d, code) ==
    LET d1 == [d EXCEPT !.status_code = Some(code)] IN
    IF 200 <= code /\ code < 300
    THEN [next |-> "return", success |-> TRUE, delivery |-> d1, delay |-> 0]
    ELSE IF code >= 500 /\ attempt < w.retry_count - 1
    THEN [next |-> "sleep", success |-> FALSE, delivery |-> d1, delay |-> 2]
    ELSE [next |-> "return", success |-> FALSE,
          delivery |-> [d1 EXCEPT !.error = Some(HttpError(code))], delay |-> 0]

\* 200 < status_code in place of 200 <= status_code
OnResponse_ExclusiveBound(w, attempt, d, code) ==
    LET d1 == [d EXCEPT !.status_code = Some(code)] IN
    IF 200 < code /\ code < 300
    THEN [next |-> "return", success |-> TRUE, delivery |-> d1, delay |-> 0]
    ELSE IF code >= 500 /\ attempt < w.retry_count - 1
    THEN [next |-> "sleep", success |-> FALSE, delivery |-> d1,
          delay |-> Pow2(attempt)]
    ELSE [next |-> "return", success |-> FALSE,
          delivery |-> [d1 EXCEPT !.error = Some(HttpError(code))], delay |-> 0]

\* the retry branch without `attempt < webhook.retry_count - 1`
OnResponse_SleepsAfterLast(w, attempt, d, code) ==
    LET d1 == [d EXCEPT !.status_code = Some(code)] IN
    IF 200 <= code /\ code < 300
    THEN [next |-> "return", success |-> TRUE, delivery |-> d1, delay |-> 0]
    ELSE IF code >= 500
    THEN [next |-> "sleep", success |-> FALSE, delivery |-> d1,
          delay |-> Pow2(attempt)]
    ELSE [next |-> "return", success |-> FALSE,
          delivery |-> [d1 EXCEPT !.error = Some(HttpError(code))], delay |-> 0]

\* _deliver_webhook after client.post returned a response
OnResponse(w, attempt, d, code) ==
    LET d1 == [d EXCEPT !.status_code = Some(code)] IN
    IF 200 <= code /\ code < 300
    THEN [next |-> "return", success |-> TRUE, delivery |-> d1, delay |-> 0]
    ELSE IF code >= 500 /\ attempt < w.retry_count - 1
    THEN [next |-> "sleep", success |-> FALSE, delivery |-> d1,
          delay |-> Pow2(attempt)]
    ELSE [next |-> "return", success |-> FALSE,
          delivery |-> [d1 EXCEPT !.error = Some(HttpError(code))], delay |-> 0]

\* the except clause re-raises once the attempts are used up
OnException_Reraises(w, attempt, d, msg) ==
    LET d1 == [d EXCEPT !.error = Some(msg)] IN
    IF attempt < w.retry_count - 1
    THEN [next |-> "sleep", success |-> FALSE, delivery |-> d1,
          delay |-> Pow2(attempt)]
    ELSE [next |-> "raise", success |-> FALSE, delivery |-> d1, delay |-> 0]

\* _deliver_webhook after client.post raised
OnException(w, attempt, d, msg) ==
    LET d1 == [d EXCEPT !.error = Some(msg)] IN
    IF attempt < w.retry_count - 1
    THEN [next |-> "sleep", success |-> FALSE, delivery |-> d1,
          delay |-> Pow2(attempt)]
    ELSE [next |-> "return", success |-> FALSE, delivery |-> d1, delay |-> 0]

DeliverWebhook(w, attempt, d, r) ==
    IF r.kind = "status"
    THEN OnResponse(w, attempt, d, r.code)
    ELSE OnException(w, attempt, d, r.msg)

\* next_retry set before the test of `success`
Settle_AlwaysSchedules(d, success) ==
    IF success
    THEN [d EXCEPT !.completed_at = Some(Stamp), !.next_retry = Some(Stamp)]
    ELSE [d EXCEPT !.next_retry = Some(Stamp)]

\* trigger_event after _deliver_webhook returned `success`
Settle(d, success) ==
    IF success
    THEN [d EXCEPT !.completed_at = Some(Stamp)]
    ELSE [d EXCEPT !.next_retry = Some(Stamp)]

\* self.deliveries.append(delivery) under `if success:`
Returned_OnlySuccess(t, d, success) ==
    LET d2 == Settle(d, success) IN
    /\ deliveries' = IF success THEN Append(deliveries, d2) ELSE deliveries
    /\ tasks' = [tasks EXCEPT ![t] =
            Iterate([@ EXCEPT !.deliveries = Append(@, d2)], webhooks)]

\* _deliver_webhook returned `success` to trigger_event: the record is
\* settled and appended to both lists, and the for loop goes on
Returned(t, d, success) ==
    LET d2 == Settle(d, success) IN
    /\ deliveries' = Append(deliveries, d2)
    /\ tasks' = [tasks EXCEPT ![t] =
            Iterate([@ EXCEPT !.deliveries = Append(@, d2)], webhooks)]

\* a call of trigger_event; the coroutine of an earlier call has finished
TriggerEvent(t, type) ==
    /\ ~Suspended(t)
    /\ nextEventId <= MaxEvents
    /\ nextEventId' = nextEventId + 1
    /\ tasks' = [tasks EXCEPT ![t] =
            Iterate([IdleTask EXCEPT !.event = WebhookEvent(nextEventId, type),
                                     !.it = 1,
                                     !.registry = webhooks],
                    webhooks)]
    /\ UNCHANGED <<webhooks, deliveries, nextWebhookId, cbVars, rlVars, esVars>>

\* the awaited client.post ends with response or exception r
PostReturns(t, r) ==
    /\ tasks[t].pc = "post"
    /\ LET tk == tasks[t]
           d0 == [tk.delivery EXCEPT !.answers = Append(@, r)]
           o == DeliverWebhook(tk.webhook, tk.attempt, d0, r)
       IN  CASE o.next = "sleep" ->
                  /\ tasks' = [tasks EXCEPT ![t] =
                        [tk EXCEPT !.pc = "sleep",
                                   !.delivery = [o.delivery EXCEPT
                                        !.waits = Append(@, o.delay)]]]
                  /\ UNCHANGED deliveries
             [] o.next = "return" -> Returned(t, o.delivery, o.success)
             [] OTHER ->
                  /\ tasks' = [tasks EXCEPT ![t] =
                        [tk EXCEPT !.pc = "raised", !.delivery = o.delivery]]
                  /\ UNCHANGED deliveries
    /\ UNCHANGED <<webhooks, nextWebhookId, nextEventId, cbVars, rlVars, esVars>>

\* the awaited asyncio.sleep(2 ** attempt) ends: `continue` takes the next
\* value of range(retry_count), or the loop is exhausted and line 204
\* returns False
SleepReturns(t) ==
    /\ tasks[t].pc = "sleep"
    /\ IF tasks[t].attempt + 1 < tasks[t].webhook.retry_count
       THEN /\ tasks' = [tasks EXCEPT ![t] = BeginAttempt(@, @.attempt + 1)]
            /\ UNCHANGED deliveries
       ELSE Returned(t, tasks[t].delivery, FALSE)
    /\ UNCHANGED <<webhooks, nextWebhookId, nextEventId, cbVars, rlVars, esVars>>

\* list_webhooks(active_only)
ListWebhooks(active_only) ==
    IF active_only THEN SelectSeq(webhooks, LAMBDA w : w.active) ELSE webhooks

\* event.to_dict(), as the JSON text of the request body
Body(e) == "{id:" \o ToString(e.id) \o ",type:" \o e.type \o "}"

\* the request client.post sends for webhook w and event e
Request(w, e) ==
    [url |-> w.url,
     json |-> Body(e),
     headers |-> ("X-Webhook-ID" :> ToString(w.id))
                 @@ ("X-Event-ID" :> ToString(e.id))
                 @@ ("X-Event-Type" :> e.type)
                 @@ ("X-Secret" :> w.secret)]

\* CancelledError taken for an Exception (as it was before Python 3.8): the
\* except clause handles it
OnCancelled_Caught(w, attempt, d) == OnException(w, attempt, d, "")

\* _deliver_webhook when the task is cancelled in client.post:
\* asyncio.CancelledError is a BaseException (python_requires >= 3.8), the
\* clause `except Exception` does not handle it and it leaves
\* _deliver_webhook and trigger_event
OnCancelled(w, attempt, d) ==
    [next |-> "raise", success |-> FALSE, delivery |-> d, delay |-> 0]

\* the task awaiting trigger_event is cancelled while trigger_event is
\* suspended in client.post or in asyncio.sleep
Cancel(t) ==
    /\ Suspended(t)
    /\ LET tk == [tasks[t] EXCEPT !.cancelled = TRUE]
           o == IF tk.pc = "post"
                THEN OnCancelled(tk.webhook, tk.attempt, tk.delivery)
                ELSE [next |-> "raise", success |-> FALSE,
                      delivery |-> tk.delivery, delay |-> 0]
       IN  CASE o.next = "sleep" ->
                  /\ tasks' = [tasks EXCEPT ![t] =
                        [tk EXCEPT !.pc = "sleep",
                                   !.delivery = [o.delivery EXCEPT
                                        !.waits = Append(@, o.delay)]]]
                  /\ UNCHANGED deliveries
             [] o.next = "return" ->
                  Returned(t, o.delivery, o.success)
             [] OTHER ->
                  /\ tasks' = [tasks EXCEPT ![t] =
                        [tk EXCEPT !.pc = "cancelled", !.delivery = o.delivery]]
                  /\ UNCHANGED deliveries
    /\ UNCHANGED <<webhooks, nextWebhookId, nextEventId, cbVars, rlVars, esVars>>

\* get_delivery_status
GetDeliveryStatus(webhook_id) ==
    LET ds == SelectSeq(deliveries, LAMBDA d : d.webhook_id = webhook_id) IN
    [webhook_id |-> webhook_id,
     total_deliveries |-> Len(ds),
     successful |-> Len(SelectSeq(ds, LAMBDA d : Truthy(d.completed_at))),
     failed |-> Len(SelectSeq(ds, LAMBDA d : Truthy(d.error))),
     pending |-> Len(SelectSeq(ds, LAMBDA d : Truthy(d.next_retry)))]

(***************************************************************************)
(* CircuitBreaker.  call() is synchronous; calls overlap when several      *)
(* threads use one breaker.  A step of the model is the admission check of *)
(* call (lines 65-69), or the end of the protected function with the       *)
(* outcome recorded by _on_success or _on_failure.                         *)
(***************************************************************************)
Callers == 1..MaxCallers
\* how the protected function ends: it returns, it raises an instance of
\* expected_exception, or it raises something else
Outcomes == {"success", "failure", "unexpected"}

IdleCaller == [pc |-> "idle", admitted |-> ""]

Breaker ==
    [state |-> state, failure_count |-> failure_count,
     last_failure_time |-> last_failure_time]

\* elapsed >= recovery_timeout in the wrong direction
ShouldAttemptReset_Inverted(b, t) ==
    IF b.last_failure_time = None
    THEN FALSE
    ELSE t - b.last_failure_time[1] <= recovery_timeout

\* _should_attempt_reset at clock time t
ShouldAttemptReset(b, t) ==
    IF b.last_failure_time = None
    THEN FALSE
    ELSE t - b.last_failure_time[1] >= recovery_timeout

\* _on_success without `self.failure_count = 0`
OnSuccess_KeepsCount(b) == [b EXCEPT !.state = "closed"]

\* _on_success
OnSuccess(b) == [b EXCEPT !.failure_count = 0, !.state = "closed"]

\* _on_failure without `self.last_failure_time = datetime.now()`
OnFailure_NoTimestamp(b, t) ==
    LET n == b.failure_count + 1 IN
    [b EXCEPT !.failure_count = n,
              !.state = IF n >= failure_threshold THEN "open" ELSE @]

\* last_failure_time kept from the failure that first opened the breaker
OnFailure_KeepsOpeningTime(b, t) ==
    LET n == b.failure_count + 1 IN
    [b EXCEPT !.failure_count = n,
              !.last_failure_time = IF @ = None THEN Some(t) ELSE @,
              !.state = IF n >= failure_threshold THEN "open" ELSE @]

\* failure_count > failure_threshold in place of >=
OnFailure_OffByOne(b, t) ==
    LET n == b.failure_count + 1 IN
    [b EXCEPT !.failure_count = n,
              !.last_failure_time = Some(t),
              !.state = IF n > failure_threshold THEN "open" ELSE @]

\* _on_failure at clock time t
OnFailure(b, t) ==
    LET n == b.failure_count + 1 IN
    [b EXCEPT !.failure_count = n,
              !.last_failure_time = Some(t),
              !.state = IF n >= failure_threshold THEN "open" ELSE @]

\* `except Exception` in place of `except self.expected_exception`
OnUnexpected_Counted(b, t) == OnFailure(b, t)

\* call() when the function raises an exception that is not an instance
\* of expected_exception: no except clause handles it
OnUnexpected(b, t) == b

SetBreaker(b) ==
    /\ state' = b.state
    /\ failure_count' = b.failure_count
    /\ last_failure_time' = b.last_failure_time

\* call(): the check of the state; the call is rejected, or the protected
\* function is invoked
CallEnter(c) ==
    /\ callers[c].pc # "running"
    /\ calls < MaxCalls
    /\ calls' = calls + 1
    /\ IF state = "open"
       THEN IF ShouldAttemptReset(Breaker, now)
            THEN /\ state' = "half-open"
                 /\ callers' = [callers EXCEPT ![c] =
                        [pc |-> "running", admitted |-> "half-open"]]
            ELSE /\ callers' = [callers EXCEPT ![c] =
                        [pc |-> "rejected", admitted |-> ""]]
                 /\ UNCHANGED state
       ELSE /\ callers' = [callers EXCEPT ![c] =
                        [pc |-> "running", admitted |-> state]]
            /\ UNCHANGED state
    /\ UNCHANGED <<failure_count, last_failure_time, failure_threshold,
                   recovery_timeout, now, history, whVars, rlVars, esVars>>

\* call(): the protected function ends with outcome o
CallReturns(c, o) ==
    /\ callers[c].pc = "running"
    /\ history' = Append(history, o)
    /\ CASE o = "success" ->
              /\ SetBreaker(OnSuccess(Breaker))
              /\ callers' = [callers EXCEPT ![c].pc = "returned"]
         [] o = "failure" ->
              /\ SetBreaker(OnFailure(Breaker, now))
              /\ callers' = [callers EXCEPT ![c].pc = "raised"]
         [] OTHER ->
              /\ SetBreaker(OnUnexpected(Breaker, now))
              /\ callers' = [callers EXCEPT ![c].pc = "raised"]
    /\ UNCHANGED <<failure_threshold, recovery_timeout, now, calls, whVars, rlVars, esVars>>

\* a second of clock time passes
Tick ==
    /\ now < MaxClock
    /\ now' = now + 1
    /\ UNCHANGED <<state, failure_count, last_failure_time, failure_threshold,
                   recovery_timeout, callers, calls, history, whVars, rlVars, esVars>>

(***************************************************************************)
(* RateLimiter.  Time is in whole seconds and tokens is kept as a whole    *)
(* number of 1/period tokens, so that (elapsed / period) * rate is exact:  *)
(* one token is `period` units, the capacity is rate * period units, and   *)
(* a refill adds elapsed * rate units.                                     *)
(***************************************************************************)
Threads == 1..MaxThreads
Token == period             \* the 1 of `tokens >= 1` and `tokens -= 1`
Capacity == rate * period   \* self.rate, as tokens

Min(a, b) == IF a <= b THEN a ELSE b

IdleThread == [pc |-> "idle", now |-> 0, tokens |-> 0]

\* _refill without the min(self.rate, ...)
Refilled_Uncapped(tok, last, t) == tok + (t - last) * rate

\* tokens_to_add = elapsed * self.rate, without the division by period
Refilled_PerSecond(tok, last, t) ==
    Min(Capacity, tok + (t - last) * rate * period)

\* _refill at clock time t: the new value of tokens
Refilled(tok, last, t) == Min(Capacity, tok + (t - last) * rate)

\* tokens > 1 in place of tokens >= 1
HasToken_Strict(tok) == tok > Token

\* the test of is_allowed
HasToken(tok) == tok >= Token

\* is_allowed called and returning with no other call of the bucket in
\* between
IsAllowed ==
    /\ Len(log) < MaxAsked
    /\ \A c \in Threads : threads[c].pc = "idle"
    /\ LET tok == Refilled(tokens, last_update, now) IN
       /\ last_update' = now
       /\ IF HasToken(tok)
          THEN /\ tokens' = tok - Token
               /\ log' = Append(log, [t |-> now, ok |-> TRUE])
          ELSE /\ tokens' = tok
               /\ log' = Append(log, [t |-> now, ok |-> FALSE])
    /\ UNCHANGED <<rate, period, threads, whVars, cbVars, esVars>>

\* is_allowed on thread c, up to the reads of _refill: now, last_update and
\* tokens are read and the new value of tokens is computed
RefillReads(c) ==
    /\ threads[c].pc = "idle"
    /\ Len(log) + Cardinality({d \in Threads : threads[d].pc # "idle"}) < MaxAsked
    /\ threads' = [threads EXCEPT ![c] =
            [pc |-> "refill", now |-> now,
             tokens |-> Refilled(tokens, last_update, now)]]
    /\ UNCHANGED <<rate, period, tokens, last_update, log, whVars, cbVars, esVars>>

\* _refill on thread c: tokens and last_update are assigned
RefillWrites(c) ==
    /\ threads[c].pc = "refill"
    /\ tokens' = threads[c].tokens
    /\ last_update' = threads[c].now
    /\ threads' = [threads EXCEPT ![c].pc = "check"]
    /\ UNCHANGED <<rate, period, log, whVars, cbVars, esVars>>

\* `if self.tokens >= 1` on thread c; return False when it fails
Checks(c) ==
    /\ threads[c].pc = "check"
    /\ IF HasToken(tokens)
       THEN /\ threads' = [threads EXCEPT ![c].pc = "load"]
            /\ UNCHANGED log
       ELSE /\ threads' = [threads EXCEPT ![c] = IdleThread]
            /\ log' = Append(log, [t |-> threads[c].now, ok |-> FALSE])
    /\ UNCHANGED <<rate, period, tokens, last_update, whVars, cbVars, esVars>>

\* `self.tokens -= 1` on thread c: tokens is read
Loads(c) ==
    /\ threads[c].pc = "load"
    /\ threads' = [threads EXCEPT ![c].pc = "store", ![c].tokens = tokens]
    /\ UNCHANGED <<rate, period, tokens, last_update, log, whVars, cbVars, esVars>>

\* `self.tokens -= 1` on thread c: tokens is assigned; return True
Stores(c) ==
    /\ threads[c].pc = "store"
    /\ tokens' = threads[c].tokens - Token
    /\ threads' = [threads EXCEPT ![c] = IdleThread]
    /\ log' = Append(log, [t |-> threads[c].now, ok |-> TRUE])
    /\ UNCHANGED <<rate, period, last_update, whVars, cbVars, esVars>>

(***************************************************************************)
(* EventStream.  emit_event runs without interruption up to the call of a  *)
(* callback; a step of the model runs from there to the callback's end and *)
(* on to the call of the next callback, or to the return of emit_event.    *)
(***************************************************************************)
Callbacks == 1..MaxCallbacks
\* how a callback ends: it returns, or it raises an Exception
CallbackOutcomes == {"returns", "raises"}

\* registered, invoked, outcomes and touched are history fields of the
\* model: the subscribers list when emit_event was called, the callbacks it
\* has called, how they ended, and the callbacks given to subscribe or
\* unsubscribe while it was running.
IdleEmit ==
    [pc |-> "idle", event |-> NoEvent, i |-> 0, callback |-> 0,
     registered |-> <<>>, invoked |-> <<>>, outcomes |-> <<>>,
     touched |-> {}]

Touched(em, c) ==
    IF em.pc = "callback" THEN [em EXCEPT !.touched = @ \cup {c}] ELSE em

\* the subscribers list taken from its last element to its first
NextCallback_Backwards(em, subs) ==
    IF em.i < Len(subs)
    THEN [em EXCEPT !.pc = "callback",
                    !.i = @ + 1,
                    !.callback = subs[Len(subs) - em.i],
                    !.invoked = Append(@, subs[Len(subs) - em.i])]
    ELSE [em EXCEPT !.pc = "done", !.callback = 0]

\* `for callback in self.subscribers`: the list iterator takes the element
\* at its index from the list as it is now and the callback is called, or
\* the index has reached the end of the list and emit_event returns
NextCallback(em, subs) ==
    IF em.i < Len(subs)
    THEN [em EXCEPT !.pc = "callback",
                    !.i = @ + 1,
                    !.callback = subs[em.i + 1],
                    !.invoked = Append(@, subs[em.i + 1])]
    ELSE [em EXCEPT !.pc = "done", !.callback = 0]

\* subscribe(callback)
Subscribe(c) ==
    /\ Len(subscribers) < MaxSubscribers
    /\ subscribers' = Append(subscribers, c)
    /\ emit' = Touched(emit, c)
    /\ UNCHANGED <<events, nextEmitId, whVars, cbVars, rlVars>>

\* list.remove: the list without the first element equal to c
Remove(subs, c) ==
    LET k == CHOOSE k \in 1..Len(subs) :
                subs[k] = c /\ \A j \in 1..(k - 1) : subs[j] # c
    IN  SubSeq(subs, 1, k - 1) \o SubSeq(subs, k + 1, Len(subs))

\* unsubscribe(callback)
Unsubscribe(c) ==
    /\ \E k \in 1..Len(subscribers) : subscribers[k] = c
    /\ subscribers' = Remove(subscribers, c)
    /\ emit' = Touched(emit, c)
    /\ UNCHANGED <<events, nextEmitId, whVars, cbVars, rlVars>>

\* a call of emit_event; no earlier call is in progress
EmitEvent(type) ==
    /\ emit.pc # "callback"
    /\ nextEmitId <= MaxEmits
    /\ nextEmitId' = nextEmitId + 1
    /\ events' = Append(events, WebhookEvent(nextEmitId, type))
    /\ emit' = NextCallback([IdleEmit EXCEPT
                                !.event = WebhookEvent(nextEmitId, type),
                                !.registered = subscribers],
                            subscribers)
    /\ UNCHANGED <<subscribers, whVars, cbVars, rlVars>>

\* the try statement without its except clause
OnCallbackEnd_Propagates(em, o, subs) ==
    IF o = "raises"
    THEN [em EXCEPT !.pc = "raised", !.outcomes = Append(@, o)]
    ELSE NextCallback([em EXCEPT !.outcomes = Append(@, o)], subs)

\* the try statement around the callback: an Exception is caught and
\* logged, and in either case the loop goes on
OnCallbackEnd(em, o, subs) ==
    NextCallback([em EXCEPT !.outcomes = Append(@, o)], subs)

\* the callback called by emit_event ends with outcome o
CallbackEnds(o) ==
    /\ emit.pc = "callback"
    /\ emit' = OnCallbackEnd(emit, o, subscribers)
    /\ UNCHANGED <<subscribers, events, nextEmitId, whVars, cbVars, rlVars>>

\* seq[start:] of Python: a negative start counts from the end, and the
\* start is clipped to the sequence
SliceFrom(seq, start) ==
    LET s0 == IF start < 0 THEN start + Len(seq) ELSE start
        s1 == IF s0 < 0 THEN 0 ELSE IF s0 > Len(seq) THEN Len(seq) ELSE s0
    IN  SubSeq(seq, s1 + 1, Len(seq))

\* get_events(limit): self.events[-limit:]
GetEvents(limit) == SliceFrom(events, 0 - limit)

\* clear_events
ClearEvents ==
    /\ events # <<>>
    /\ events' = <<>>
    /\ UNCHANGED <<subscribers, emit, nextEmitId, whVars, cbVars, rlVars>>

(***************************************************************************)
(* Initial states and specifications.                                      *)
(***************************************************************************)
\* CircuitBreaker.__init__
BreakerStart ==
    /\ state = "closed"
    /\ failure_count = 0
    /\ last_failure_time = None
    /\ now = 0
    /\ calls = 0
    /\ history = <<>>

\* WebhookManager.__init__
WebhookStart ==
    /\ webhooks = <<>>
    /\ deliveries = <<>>
    /\ tasks = [t \in Tasks |-> IdleTask]
    /\ nextWebhookId = 1
    /\ nextEventId = 1

\* EventStream.__init__
StreamStart ==
    /\ subscribers = <<>>
    /\ events = <<>>
    /\ emit = IdleEmit
    /\ nextEmitId = 1

\* RateLimiter.__init__(r, p)
BucketStart(r, p) ==
    /\ rate = r
    /\ period = p
    /\ tokens = r * p
    /\ last_update = 0
    /\ threads = [c \in Threads |-> IdleThread]
    /\ log = <<>>

\* a CircuitBreaker with the default arguments
BreakerDefault ==
    /\ BreakerStart
    /\ failure_threshold = DefaultFailureThreshold
    /\ recovery_timeout = DefaultRecoveryTimeout
    /\ callers = [c \in Callers |-> IdleCaller]

Init ==
    /\ WebhookStart
    /\ BreakerDefault
    /\ BucketStart(1, DefaultPeriod)
    /\ StreamStart

Next ==
    \/ \E u \in Urls, ts \in TypeLists :
            NoneSuspended /\ nextWebhookId <= MaxWebhooks /\ RegisterWebhook(u, ts)
    \/ \E id \in 1..MaxWebhooks : NoneSuspended /\ UnregisterWebhook(id)
    \/ \E id \in 1..MaxWebhooks, b \in BOOLEAN : NoneSuspended /\ SetActive(id, b)
    \/ \E id \in 1..MaxWebhooks, n \in 1..MaxRetry :
            NoneSuspended /\ SetRetryCount(id, n)
    \/ \E t \in Tasks, ty \in EventTypes : TriggerEvent(t, ty)
    \/ \E t \in Tasks, r \in Responses : PostReturns(t, r)
    \/ \E t \in Tasks : SleepReturns(t)

Spec == Init /\ [][Next]_vars

\* the manager with subscriptions registered and unregistered by other
\* coroutines while a trigger_event is suspended in an await
ConcNext ==
    \/ \E u \in Urls, ts \in TypeLists :
            nextWebhookId <= MaxWebhooks /\ RegisterWebhook(u, ts)
    \/ \E id \in 1..MaxWebhooks : UnregisterWebhook(id)
    \/ \E t \in Tasks, type \in EventTypes : TriggerEvent(t, type)
    \/ \E t \in Tasks, r \in Responses : PostReturns(t, r)
    \/ \E t \in Tasks : SleepReturns(t)

ConcSpec == Init /\ [][ConcNext]_vars

\* the manager with up to MaxRegistered subscriptions and endpoints that
\* answer 200 or 404
OrderResponses ==
    {r \in Responses : r.kind = "status" /\ r.code \in {200, 404}}

OrderNext ==
    \/ \E u \in Urls, ts \in TypeLists :
            NoneSuspended /\ nextWebhookId <= MaxRegistered /\ RegisterWebhook(u, ts)
    \/ \E id \in 1..MaxRegistered : NoneSuspended /\ UnregisterWebhook(id)
    \/ \E id \in 1..MaxRegistered, b \in BOOLEAN : NoneSuspended /\ SetActive(id, b)
    \/ \E t \in Tasks, ty \in EventTypes : TriggerEvent(t, ty)
    \/ \E t \in Tasks, r \in OrderResponses : PostReturns(t, r)

OrderSpec == Init /\ [][OrderNext]_vars

\* the manager with register_webhook given any string as url
BadUrls == {"not a url", "/relative/path"}

TargetNext ==
    \/ \E u \in Urls \cup BadUrls, ts \in TypeLists :
            NoneSuspended /\ nextWebhookId <= MaxWebhooks /\ RegisterWebhook(u, ts)
    \/ \E id \in 1..MaxWebhooks : NoneSuspended /\ UnregisterWebhook(id)
    \/ \E t \in Tasks, ty \in EventTypes : TriggerEvent(t, ty)
    \/ \E t \in Tasks, r \in OrderResponses : PostReturns(t, r)

TargetSpec == Init /\ [][TargetNext]_vars

\* the manager with calls of trigger_event that are cancelled
CancelNext ==
    \/ \E u \in Urls, ts \in TypeLists :
            NoneSuspended /\ nextWebhookId <= MaxWebhooks /\ RegisterWebhook(u, ts)
    \/ \E id \in 1..MaxWebhooks, n \in 1..MaxRetry :
            NoneSuspended /\ SetRetryCount(id, n)
    \/ \E t \in Tasks, ty \in EventTypes : TriggerEvent(t, ty)
    \/ \E t \in Tasks, r \in Responses : PostReturns(t, r)
    \/ \E t \in Tasks : SleepReturns(t)
    \/ \E t \in Tasks : Cancel(t)

CancelSpec == Init /\ [][CancelNext]_vars

\* the same manager on an event loop that lets every outbound call come
\* to its end
RetrySpec ==
    /\ Init
    /\ [][OrderNext]_vars
    /\ WF_vars(\E t \in Tasks, r \in OrderResponses : PostReturns(t, r))

\* the manager on an event loop on which every outbound call returns or
\* times out and every asyncio.sleep ends
LiveNext ==
    \/ \E u \in Urls, ts \in TypeLists :
            NoneSuspended /\ nextWebhookId <= MaxWebhooks /\ RegisterWebhook(u, ts)
    \/ \E id \in 1..MaxWebhooks, n \in 1..MaxRetry :
            NoneSuspended /\ SetRetryCount(id, n)
    \/ \E t \in Tasks, ty \in EventTypes : TriggerEvent(t, ty)
    \/ \E t \in Tasks, r \in Responses : PostReturns(t, r)
    \/ \E t \in Tasks : SleepReturns(t)

LiveSpec ==
    /\ Init
    /\ [][LiveNext]_vars
    /\ WF_vars(\E t \in Tasks, r \in Responses : PostReturns(t, r))
    /\ WF_vars(\E t \in Tasks : SleepReturns(t))

\* an event stream whose callbacks neither subscribe nor unsubscribe and
\* that is used by one task at a time
EmitNotRunning == emit.pc # "callback"

StreamNext ==
    \/ \E c \in Callbacks : EmitNotRunning /\ Subscribe(c)
    \/ \E c \in Callbacks : EmitNotRunning /\ Unsubscribe(c)
    \/ EmitNotRunning /\ ClearEvents
    \/ \E type \in EventTypes : EmitEvent(type)
    \/ \E o \in CallbackOutcomes : CallbackEnds(o)

StreamSpec == Init /\ [][StreamNext]_vars

\* an event stream whose subscribers list is changed while emit_event is
\* running: by the callback it has called, or by another task while an
\* asynchronous callback is awaited
StreamRaceNext ==
    \/ \E c \in Callbacks : Subscribe(c)
    \/ \E c \in Callbacks : Unsubscribe(c)
    \/ ClearEvents
    \/ \E type \in EventTypes : EmitEvent(type)
    \/ \E o \in CallbackOutcomes : CallbackEnds(o)

StreamRaceSpec == Init /\ [][StreamRaceNext]_vars

\* the breaker after n calls at clock time 0 that all failed
RECURSIVE AfterFailures(_)
AfterFailures(n) ==
    IF n = 0
    THEN [state |-> "closed", failure_count |-> 0, last_failure_time |-> None]
    ELSE OnFailure(AfterFailures(n - 1), 0)

\* the manager beside a breaker that failure_threshold failed calls have
\* opened
TrippedInit ==
    /\ WebhookStart
    /\ failure_threshold = DefaultFailureThreshold
    /\ recovery_timeout = DefaultRecoveryTimeout
    /\ callers = [c \in Callers |-> IdleCaller]
    /\ now = 0
    /\ calls = failure_threshold
    /\ history = [k \in 1..failure_threshold |-> "failure"]
    /\ state = AfterFailures(failure_threshold).state
    /\ failure_count = AfterFailures(failure_threshold).failure_count
    /\ last_failure_time = AfterFailures(failure_threshold).last_failure_time
    /\ BucketStart(1, DefaultPeriod)
    /\ StreamStart

TrippedSpec == TrippedInit /\ [][Next]_vars

BreakerInit ==
    /\ WebhookStart
    /\ BreakerStart
    /\ failure_threshold \in 1..MaxThreshold
    /\ recovery_timeout \in 1..MaxRecovery
    /\ callers = [c \in Callers |-> IdleCaller]
    /\ BucketStart(1, DefaultPeriod)
    /\ StreamStart

BreakerNext ==
    \/ \E c \in Callers : CallEnter(c)
    \/ \E c \in Callers, o \in Outcomes : CallReturns(c, o)
    \/ Tick

BreakerSpec == BreakerInit /\ [][BreakerNext]_vars

\* the breaker used by one caller at a time
NoneRunning == \A c \in Callers : callers[c].pc # "running"

SeqBreakerNext ==
    \/ \E c \in Callers : NoneRunning /\ CallEnter(c)
    \/ \E c \in Callers, o \in Outcomes : CallReturns(c, o)
    \/ Tick

SeqBreakerSpec == BreakerInit /\ [][SeqBreakerNext]_vars

\* a fresh bucket used by one caller at a time
BucketInit ==
    /\ WebhookStart
    /\ BreakerDefault
    /\ \E r \in 1..MaxRate, p \in 1..MaxPeriod : BucketStart(r, p)
    /\ StreamStart

BucketNext ==
    \/ IsAllowed
    \/ Tick

BucketSpec == BucketInit /\ [][BucketNext]_vars

\* a fresh bucket used by several threads
RaceNext ==
    \/ \E c \in Threads : RefillReads(c)
    \/ \E c \in Threads : RefillWrites(c)
    \/ \E c \in Threads : Checks(c)
    \/ \E c \in Threads : Loads(c)
    \/ \E c \in Threads : Stores(c)
    \/ Tick

RaceSpec == BucketInit /\ [][RaceNext]_vars

(***************************************************************************)
(* Vocabulary of the properties.                                           *)
(***************************************************************************)
Is2xx(r) == r.kind = "status" /\ r.code \in 200..299
Is4xx(r) == r.kind = "status" /\ r.code \in 400..499
\* a 5xx status, or a network or timeout error
IsTransient(r) == r.kind = "exception" \/ (r.kind = "status" /\ r.code >= 500)

Recorded == {deliveries[i] : i \in 1..Len(deliveries)}
Registered(id) == \E i \in 1..Len(webhooks) : webhooks[i].id = id
RetryCountOf(id) == webhooks[IndexOf(id)].retry_count

\* the subscriptions of registry ws that trigger_event is to deliver e to
Interested(ws, e) ==
    SelectSeq(ws, LAMBDA w : w.active = TRUE /\ e.type \in w.event_types)

\* the record of a delivery to w that meets the answers `answers`, when it
\* is the only delivery there is
RECURSIVE Replay(_, _, _, _)
Replay(w, d, attempt, answers) ==
    LET d0 == [AttemptStarted(d, attempt) EXCEPT
                    !.answers = Append(@, Head(answers))]
        o == DeliverWebhook(w, attempt, d0, Head(answers))
    IN  IF o.next = "sleep" /\ Tail(answers) # <<>>
        THEN Replay(w, [o.delivery EXCEPT !.waits = Append(@, o.delay)],
                    attempt + 1, Tail(answers))
        ELSE Settle(o.delivery, o.success)

(***************************************************************************)
(* C1: when trigger_event returns, the list it returns holds exactly one   *)
(* delivery record for each subscription that was registered, active and   *)
(* interested in the event's type when it was called, none for any other   *)
(* subscription, and each record carries the subscription's id and the     *)
(* event's id.                                                             *)
(***************************************************************************)
OneDeliveryPerMatch ==
    \A t \in Tasks :
        tasks[t].pc = "done" =>
            LET tk == tasks[t]
                m == Interested(tk.registry, tk.event)
            IN  /\ Len(tk.deliveries) = Len(m)
                /\ \A i \in 1..Len(m) :
                        /\ tk.deliveries[i].webhook_id = m[i].id
                        /\ tk.deliveries[i].event_id = tk.event.id
                /\ \A i \in 1..Len(tk.deliveries) :
                        \E j \in 1..Len(deliveries) :
                            deliveries[j] = tk.deliveries[i]

\* a trigger returned one record with an interested active subscription, an
\* inactive one or an uninterested one being registered
OneDeliveryPerMatchWitness ==
    \E t \in Tasks :
        /\ tasks[t].pc = "done"
        /\ Len(tasks[t].registry) = 2
        /\ Len(tasks[t].deliveries) = 1
        /\ \E i \in 1..2 :
              /\ tasks[t].registry[i].active = FALSE
              /\ tasks[t].event.type \in tasks[t].registry[i].event_types

(***************************************************************************)
(* C2: in every state, a delivery in progress or recorded has attempts at  *)
(* most the retry_count of its subscription, and as many outbound calls    *)
(* have been started for it as its attempts says.                          *)
(***************************************************************************)
AttemptsBounded ==
    /\ \A t \in Tasks :
            Suspended(t) =>
                /\ tasks[t].delivery.attempts <= tasks[t].webhook.retry_count
                /\ tasks[t].delivery.calls = tasks[t].delivery.attempts
    /\ \A d \in Recorded :
            /\ d.calls = d.attempts
            /\ Registered(d.webhook_id) => d.attempts <= RetryCountOf(d.webhook_id)

\* an attempt loop is waiting in its last permitted outbound call
AttemptsBoundedWitness ==
    \E t \in Tasks :
        /\ tasks[t].pc = "post"
        /\ tasks[t].webhook.retry_count = 2
        /\ tasks[t].delivery.attempts = 2

(***************************************************************************)
(* C3: a recorded delivery all of whose calls were answered by a 5xx       *)
(* status or an exception made retry_count calls, slept 2^k seconds after  *)
(* the k-th failed call (k from 0) but not after the last, and is          *)
(* exhausted: attempts = retry_count, completed_at unset, error set.       *)
(***************************************************************************)
TransientExhausts ==
    \A d \in Recorded :
        (/\ Registered(d.webhook_id)
         /\ \A k \in 1..Len(d.answers) : IsTransient(d.answers[k]))
        => LET rc == RetryCountOf(d.webhook_id) IN
           /\ d.calls = rc
           /\ Len(d.answers) = rc
           /\ d.attempts = rc
           /\ Len(d.waits) = rc - 1
           /\ \A k \in 1..(rc - 1) : d.waits[k] = 2^(k - 1)
           /\ \A k \in 1..(rc - 2) : d.waits[k] < d.waits[k + 1]
           /\ d.completed_at = None
           /\ d.error # None

\* three calls answered 503, exception, 503, with sleeps of 1 and 2 seconds
TransientExhaustsWitness ==
    \E d \in Recorded :
        /\ Len(d.answers) = 3
        /\ \A k \in 1..3 : IsTransient(d.answers[k])
        /\ d.answers[1].kind = "status"
        /\ d.answers[2].kind = "exception"
        /\ d.waits = <<1, 2>>
        /\ d.attempts = 3

(***************************************************************************)
(* C4: a recorded delivery whose first call was answered by a 4xx status   *)
(* has attempts = 1, completed_at unset, error naming the status code, and *)
(* is not pending a retry (get_delivery_status counts a record as pending  *)
(* when its next_retry is set).                                            *)
(***************************************************************************)
ClientErrorIsPermanent ==
    \A d \in Recorded :
        Is4xx(d.answers[1]) =>
            /\ d.attempts = 1
            /\ d.calls = 1
            /\ d.completed_at = None
            /\ d.error = Some(HttpError(d.answers[1].code))
            /\ ~Truthy(d.next_retry)

(***************************************************************************)
(* C5: a recorded delivery whose first k-1 calls were answered by 5xx or   *)
(* exceptions and whose k-th call was answered by a 2xx status has         *)
(* attempts = k and completed_at set, and made k calls and no more.        *)
(***************************************************************************)
SuccessStopsLoop ==
    \A d \in Recorded :
        \A k \in 1..Len(d.answers) :
            (/\ \A j \in 1..(k - 1) : IsTransient(d.answers[j])
             /\ Is2xx(d.answers[k]))
            => /\ d.attempts = k
               /\ d.calls = k
               /\ Len(d.answers) = k
               /\ d.completed_at # None

\* a delivery succeeded at its third call
SuccessStopsLoopWitness ==
    \E d \in Recorded :
        /\ Len(d.answers) = 3
        /\ IsTransient(d.answers[1])
        /\ IsTransient(d.answers[2])
        /\ Is2xx(d.answers[3])
        /\ d.completed_at # None

(***************************************************************************)
(* C6: trigger_event never ends by raising, whatever the endpoints answer; *)
(* once its loop is over it has returned its list of delivery records.     *)
(***************************************************************************)
TriggerNeverRaises ==
    \A t \in Tasks :
        /\ tasks[t].pc # "raised"
        /\ tasks[t].pc \in {"idle", "post", "sleep", "done"}

\* a trigger returned after a delivery whose every call raised
TriggerNeverRaisesWitness ==
    \E t \in Tasks :
        /\ tasks[t].pc = "done"
        /\ \E i \in 1..Len(tasks[t].deliveries) :
              LET d == tasks[t].deliveries[i] IN
              /\ Len(d.answers) = 3
              /\ \A k \in 1..3 : d.answers[k].kind = "exception"

(***************************************************************************)
(* C7: every recorded delivery is the record its subscription would have   *)
(* got for the same answers as the only subscriber, and a returned trigger *)
(* has made at least one outbound call for every interested subscription,  *)
(* whatever became of the deliveries before it.                            *)
(***************************************************************************)
SubscribersIndependent ==
    /\ \A d \in Recorded :
            Registered(d.webhook_id) =>
                d = Replay(webhooks[IndexOf(d.webhook_id)],
                           WebhookDelivery(d.webhook_id, d.event_id), 0, d.answers)
    /\ \A t \in Tasks :
            tasks[t].pc = "done" =>
                LET m == Interested(tasks[t].registry, tasks[t].event) IN
                \A i \in 1..Len(m) :
                    \E j \in 1..Len(tasks[t].deliveries) :
                        /\ tasks[t].deliveries[j].webhook_id = m[i].id
                        /\ tasks[t].deliveries[j].calls >= 1

\* the first subscriber's delivery failed for good and the second's succeeded
SubscribersIndependentWitness ==
    \E t \in Tasks :
        /\ tasks[t].pc = "done"
        /\ Len(tasks[t].deliveries) = 2
        /\ tasks[t].deliveries[1].completed_at = None
        /\ tasks[t].deliveries[1].error # None
        /\ tasks[t].deliveries[2].completed_at # None
        /\ tasks[t].deliveries[2].error = None

(***************************************************************************)
(* Vocabulary of the breaker's properties.                                 *)
(***************************************************************************)
\* the failures after the last success among the recorded outcomes
RECURSIVE FailuresSinceSuccess(_)
FailuresSinceSuccess(h) ==
    IF h = <<>> \/ h[Len(h)] = "success"
    THEN 0
    ELSE FailuresSinceSuccess(SubSeq(h, 1, Len(h) - 1))
            + (IF h[Len(h)] = "failure" THEN 1 ELSE 0)

\* the breaker is open and its cool-down has not elapsed
CoolingDown ==
    /\ state = "open"
    /\ last_failure_time # None
    /\ now - last_failure_time[1] < recovery_timeout

\* this step is caller c beginning a call
Arrives(c) == calls' = calls + 1 /\ callers'[c] # callers[c]

(***************************************************************************)
(* C8: the breaker is closed exactly while fewer than failure_threshold    *)
(* failures have been recorded since the last success, and failure_count   *)
(* is the number of those failures (0 after a success).                    *)
(***************************************************************************)
OpensAtThreshold ==
    /\ failure_count = FailuresSinceSuccess(history)
    /\ state = "closed" <=> FailuresSinceSuccess(history) < failure_threshold

\* threshold 2: one failure, a success, then two failures opened the breaker
OpensAtThresholdWitness ==
    /\ failure_threshold = 2
    /\ history = <<"failure", "success", "failure", "failure">>
    /\ state = "open"

(***************************************************************************)
(* C9: a call that arrives while the breaker is open and its cool-down has *)
(* not elapsed is rejected, the protected function is not invoked, and     *)
(* state, failure_count and last_failure_time are left as they were.       *)
(***************************************************************************)
OpenRejects ==
    [][\A c \in Callers :
            (CoolingDown /\ Arrives(c)) =>
                /\ callers'[c].pc = "rejected"
                /\ state' = state
                /\ failure_count' = failure_count
                /\ last_failure_time' = last_failure_time]_vars

\* a call has been rejected and the breaker is still cooling down
OpenRejectsWitness ==
    /\ CoolingDown
    /\ \E c \in Callers : callers[c].pc = "rejected"

(***************************************************************************)
(* C10: of the calls that arrive once the cool-down has elapsed, one is    *)
(* admitted as the probe, and no other is admitted before the probe's      *)
(* outcome is recorded.                                                    *)
(***************************************************************************)
SingleProbe ==
    Cardinality({c \in Callers :
                    callers[c].pc = "running" /\ callers[c].admitted = "half-open"})
        <= 1

\* this step is caller c's protected function ending with outcome o while
\* the breaker is half-open and c is the probe it admitted
ProbeEnds(c, o) ==
    /\ state = "half-open"
    /\ callers[c].pc = "running"
    /\ callers[c].admitted = "half-open"
    /\ callers'[c].pc # "running"
    /\ history' = Append(history, o)

(***************************************************************************)
(* C11: when the probe admitted in half-open succeeds, the breaker becomes *)
(* closed with failure_count 0; and a closed breaker is always fewer than  *)
(* failure_threshold failures past its last success, so failure_threshold  *)
(* new failures are needed to open it again.                               *)
(***************************************************************************)
ProbeSuccessCloses ==
    [][/\ \A c \in Callers :
            ProbeEnds(c, "success") =>
                /\ state' = "closed"
                /\ failure_count' = 0
                /\ FailuresSinceSuccess(history') = 0
       /\ (state' = "closed" => failure_count' < failure_threshold)]_vars

\* a probe succeeded and closed the breaker
ProbeSuccessClosesWitness ==
    /\ state = "closed"
    /\ failure_count = 0
    /\ Len(history) >= 2
    /\ history[Len(history)] = "success"
    /\ history[Len(history) - 1] = "failure"
    /\ \E c \in Callers :
            callers[c].pc = "returned" /\ callers[c].admitted = "half-open"

(***************************************************************************)
(* C12: when the probe admitted in half-open fails, that one failure puts  *)
(* the breaker back to open and last_failure_time becomes the time of the  *)
(* failure; a call that arrives less than recovery_timeout after it is     *)
(* rejected.                                                               *)
(***************************************************************************)
ProbeFailureReopens ==
    [][/\ \A c \in Callers :
            ProbeEnds(c, "failure") =>
                /\ state' = "open"
                /\ last_failure_time' = Some(now)
       /\ \A c \in Callers :
            (/\ state = "open"
             /\ history # <<>>
             /\ history[Len(history)] = "failure"
             /\ now - last_failure_time[1] < recovery_timeout
             /\ Arrives(c))
            => callers'[c].pc = "rejected"]_vars

\* a probe failed a second or more after the breaker first opened, and a
\* call was rejected after that
ProbeFailureReopensWitness ==
    /\ state = "open"
    /\ history # <<>>
    /\ history[Len(history)] = "failure"
    /\ last_failure_time = Some(now)
    /\ now >= 1
    /\ \E c \in Callers :
            callers[c].pc = "raised" /\ callers[c].admitted = "half-open"
    /\ \E c \in Callers : callers[c].pc = "rejected"

(***************************************************************************)
(* Vocabulary of the bucket's properties.                                  *)
(***************************************************************************)
\* call j of the log comes to a full bucket: it is the first call of a
\* fresh bucket, or at least one period has passed since the call before it
AfterFullPeriod(j) == j = 1 \/ log[j].t - log[j - 1].t >= period

Granted == {j \in 1..Len(log) : log[j].ok}

(***************************************************************************)
(* C13: of the calls made with no time passing between them, starting at   *)
(* the first call of a fresh bucket or at the first call after a full      *)
(* period without calls, exactly the first `rate` are granted.             *)
(***************************************************************************)
GrantsExactlyCapacity ==
    \A j \in 1..Len(log) :
        AfterFullPeriod(j) =>
            \A k \in j..Len(log) :
                log[k].t = log[j].t => (log[k].ok <=> k - j < rate)

\* rate 2: two grants and a denial at once, then after a period two grants
\* and a denial again
GrantsExactlyCapacityWitness ==
    /\ rate = 2
    /\ Len(log) = 6
    /\ \A k \in 1..3 : log[k].t = 0
    /\ \A k \in 4..6 : log[k].t = period
    /\ [k \in 1..6 |-> log[k].ok] = <<TRUE, TRUE, FALSE, TRUE, TRUE, FALSE>>

(***************************************************************************)
(* C14: tokens is never below 0 and never above the capacity.              *)
(***************************************************************************)
TokensInRange == 0 <= tokens /\ tokens <= Capacity

\* the bucket was idle for more than a period, with tokens left, and the
\* call after that was granted down from a full bucket; and the last token
\* of a bucket has been granted
TokensInRangeWitness ==
    /\ Len(log) >= 3
    /\ log[1].ok
    /\ rate = 2
    /\ log[2].t - log[1].t > period
    /\ log[2].ok
    /\ log[3].ok
    /\ tokens = 0

(***************************************************************************)
(* C17: calls of is_allowed that interleave never grant more requests than *)
(* the bucket held, and never leave tokens negative: while no time has     *)
(* passed since the bucket was made, at most `rate` calls are granted.     *)
(***************************************************************************)
GrantsWithinTokens ==
    /\ tokens >= 0
    /\ now = 0 => Cardinality(Granted) <= rate

(***************************************************************************)
(* C15: a subscription registered or unregistered while trigger_event is   *)
(* suspended does not make the call raise, and the records the call has    *)
(* made are returned: every call is idle, suspended in an await, or has    *)
(* returned its list.                                                      *)
(***************************************************************************)
RegistryChangeIsSafe ==
    \A t \in Tasks : tasks[t].pc \in {"idle", "post", "sleep", "done"}

(***************************************************************************)
(* C16: a slow subscriber delays only its own delivery: while a trigger is *)
(* waiting on one subscription's endpoint and another interested           *)
(* subscription has not been served yet, a step is possible that starts    *)
(* the other subscription's delivery with the first one still unsettled.   *)
(***************************************************************************)
Unserved(t) ==
    {i \in tasks[t].it..Len(webhooks) : Matches(webhooks[i], tasks[t].event)}

OthersNeedNotWait ==
    \A t \in Tasks :
        (Suspended(t) /\ Unserved(t) # {}) =>
            ENABLED (/\ Next
                     /\ deliveries' = deliveries
                     /\ tasks'[t].pc = "post"
                     /\ tasks'[t].webhook.id # tasks[t].webhook.id)

(***************************************************************************)
(* C18: no outbound call is made while the breaker is open and its         *)
(* recovery timeout has not passed.                                        *)
(***************************************************************************)
NoCallWhileOpen ==
    \A t \in Tasks : tasks[t].pc = "post" => ~CoolingDown

(***************************************************************************)
(* C19: the outcome of every attempt is recorded on the breaker: after the *)
(* first delivery of a manager, whose endpoint answered 503 or 2xx only,   *)
(* failure_count is the number of 503 answers since the last 2xx.          *)
(***************************************************************************)
AttemptOutcomes(d) ==
    [k \in 1..Len(d.answers) |->
        IF Is2xx(d.answers[k]) THEN "success" ELSE "failure"]

OutcomesRecorded ==
    (/\ Len(deliveries) = 1
     /\ NoneSuspended
     /\ \A k \in 1..Len(deliveries[1].answers) :
            /\ deliveries[1].answers[k].kind = "status"
            /\ deliveries[1].answers[k].code \in {200, 503})
    => failure_count = FailuresSinceSuccess(AttemptOutcomes(deliveries[1]))

(***************************************************************************)
(* C20: emit_event appends the event to events, and by the time it returns *)
(* it has called the callbacks that were registered when it was called,    *)
(* each registration once, in the order of registration; while it runs it  *)
(* has called the first of them in that order.                             *)
(***************************************************************************)
EmitReachesAll ==
    [][/\ nextEmitId' # nextEmitId =>
            /\ events' = Append(events, emit'.event)
            /\ emit'.registered = subscribers
       /\ emit'.pc = "callback" =>
            emit'.invoked = SubSeq(emit'.registered, 1, Len(emit'.invoked))
       /\ emit'.pc = "done" => emit'.invoked = emit'.registered]_vars

\* an emit_event has returned that found three registrations, two of them of
\* the same callback, and whose event is the last of events
EmitReachesAllWitness ==
    /\ emit.pc = "done"
    /\ emit.registered = <<2, 1, 2>>
    /\ emit.invoked = <<2, 1, 2>>
    /\ events # <<>>
    /\ events[Len(events)] = emit.event

(***************************************************************************)
(* C21: when a callback raises, emit_event does not raise, the event stays *)
(* in events, and the callback registered next is called; if there is none *)
(* emit_event returns.                                                     *)
(***************************************************************************)
CallbackRaises ==
    /\ emit.pc = "callback"
    /\ emit'.outcomes = Append(emit.outcomes, "raises")

RaisingCallbackSkipped ==
    [][CallbackRaises =>
        /\ emit'.pc \in {"callback", "done"}
        /\ \E k \in 1..Len(events') : events'[k] = emit.event
        /\ emit.i < Len(subscribers) =>
                /\ emit'.pc = "callback"
                /\ emit'.callback = subscribers[emit.i + 1]
                /\ emit'.invoked = Append(emit.invoked, subscribers[emit.i + 1])
        /\ emit.i >= Len(subscribers) => emit'.pc = "done"]_vars

\* an emit_event has returned whose first callback raised and whose second
\* and third callbacks were called after that
RaisingCallbackSkippedWitness ==
    /\ emit.pc = "done"
    /\ Len(emit.registered) = 3
    /\ emit.outcomes = <<"raises", "returns", "returns">>
    /\ emit.invoked = emit.registered
    /\ \E k \in 1..Len(events) : events[k] = emit.event

(***************************************************************************)
(* C22: when emit_event returns, every callback that was registered once   *)
(* when it was called, and that no subscribe or unsubscribe was given      *)
(* while it ran, has been called exactly once.                             *)
(***************************************************************************)
Count(seq, c) == Cardinality({k \in 1..Len(seq) : seq[k] = c})

ListChangeTolerated ==
    emit.pc = "done" =>
        \A c \in Callbacks :
            (Count(emit.registered, c) = 1 /\ c \notin emit.touched)
            => Count(emit.invoked, c) = 1

(***************************************************************************)
(* C23: for every limit >= 0, get_events(limit) is the last                *)
(* min(limit, number of stored events) stored events, in their order.      *)
(***************************************************************************)
MostRecent(n) == SubSeq(events, Len(events) - n + 1, Len(events))

GetEventsReturnsMostRecent ==
    \A limit \in 0..MaxLimit :
        GetEvents(limit) = MostRecent(Min(limit, Len(events)))

(***************************************************************************)
(* C24: unregister_webhook(id) of a registered id removes that             *)
(* subscription, keeps the others and returns True; of an id that is not   *)
(* registered it returns False and leaves the registry as it is; so a      *)
(* second unregister_webhook(id) returns False and changes nothing.        *)
(***************************************************************************)
UnregisterIdempotent ==
    \A id \in 1..MaxWebhooks :
        LET first == Unregistered(webhooks, id)
            second == Unregistered(first.webhooks, id)
        IN  /\ Registered(id) =>
                /\ first.returned
                /\ first.webhooks = SelectSeq(webhooks, LAMBDA w : w.id # id)
                /\ Len(first.webhooks) = Len(webhooks) - 1
            /\ ~Registered(id) =>
                /\ ~first.returned
                /\ first.webhooks = webhooks
            /\ ~second.returned
            /\ second.webhooks = first.webhooks

\* of two subscriptions made, the first has been unregistered and the
\* second is registered
UnregisterIdempotentWitness ==
    /\ nextWebhookId = 3
    /\ ~Registered(1)
    /\ Registered(2)

(***************************************************************************)
(* C25: the registry, the lists list_webhooks returns, the outbound calls  *)
(* of a trigger_event and the records it returns are in the order in which *)
(* the subscriptions were registered, whatever was registered and          *)
(* unregistered before.  (Ids count the registrations.)                    *)
(***************************************************************************)
Ascending(ids) ==
    \A i, j \in 1..Len(ids) : i < j => ids[i] < ids[j]

IdsOf(ws) == [i \in 1..Len(ws) |-> ws[i].id]

DeliveredIds(tk) ==
    [i \in 1..Len(tk.deliveries) |-> tk.deliveries[i].webhook_id]
        \o (IF tk.pc \in {"post", "sleep"} THEN <<tk.webhook.id>> ELSE <<>>)

InRegistrationOrder ==
    /\ Ascending(IdsOf(webhooks))
    /\ Ascending(IdsOf(ListWebhooks(TRUE)))
    /\ Ascending(IdsOf(ListWebhooks(FALSE)))
    /\ \A t \in Tasks :
        /\ Ascending(DeliveredIds(tasks[t]))
        /\ tasks[t].pc = "done" =>
              DeliveredIds(tasks[t])
                = IdsOf(Interested(tasks[t].registry, tasks[t].event))

\* of three subscriptions the first was unregistered, and a trigger has
\* returned the records of the second and the third, in that order
InRegistrationOrderWitness ==
    \E t \in Tasks :
        /\ tasks[t].pc = "done"
        /\ ~Registered(1)
        /\ DeliveredIds(tasks[t]) = <<2, 3>>

(***************************************************************************)
(* C26: every delivery record a trigger_event has made is in               *)
(* self.deliveries, whatever its outcome, and when the trigger has         *)
(* returned there is one for each interested subscription; and             *)
(* get_delivery_status(id) counts the records whose webhook_id is id, all  *)
(* of them and no others, whether or not id is still registered.           *)
(***************************************************************************)
RecordsOf(id) == {j \in 1..Len(deliveries) : deliveries[j].webhook_id = id}

DeliveriesRecorded ==
    /\ \A t \in Tasks :
        /\ \A i \in 1..Len(tasks[t].deliveries) :
              \E j \in 1..Len(deliveries) : deliveries[j] = tasks[t].deliveries[i]
        /\ tasks[t].pc = "done" =>
              LET m == Interested(tasks[t].registry, tasks[t].event) IN
              \A i \in 1..Len(m) :
                  \E j \in RecordsOf(m[i].id) :
                      deliveries[j].event_id = tasks[t].event.id
    /\ \A id \in 1..MaxWebhooks :
        LET st == GetDeliveryStatus(id) IN
        /\ st.webhook_id = id
        /\ st.total_deliveries = Cardinality(RecordsOf(id))
        /\ st.successful
              = Cardinality({j \in RecordsOf(id) : deliveries[j].completed_at # None})
        /\ st.failed <= st.total_deliveries
        /\ st.pending <= st.total_deliveries

\* the first subscription got a 404 and the second three 503 answers, both
\* records are counted, and the first subscription has been unregistered
DeliveriesRecordedWitness ==
    /\ ~Registered(1)
    /\ Registered(2)
    /\ GetDeliveryStatus(1).total_deliveries = 1
    /\ GetDeliveryStatus(2).total_deliveries = 1
    /\ \E j \in RecordsOf(1) : deliveries[j].status_code = Some(404)
    /\ \E j \in RecordsOf(2) :
            /\ deliveries[j].attempts = 3
            /\ deliveries[j].status_code = Some(503)

(***************************************************************************)
(* C27: trigger_event returns before the outbound calls and back-off waits *)
(* of its deliveries are over: no call of trigger_event is still running   *)
(* while an outbound call or a back-off wait of one of its deliveries is   *)
(* outstanding.                                                            *)
(***************************************************************************)
Outstanding(tk) ==
    \/ tk.delivery.calls > Len(tk.delivery.answers)
    \/ Len(tk.delivery.waits) > 0 /\ tk.pc = "sleep"

ReturnsPromptly ==
    \A t \in Tasks :
        Outstanding(tasks[t]) => tasks[t].pc \in {"done", "raised"}

(***************************************************************************)
(* C28: a trigger_event that was cancelled during the outbound call or     *)
(* during a back-off wait has stopped: it is not in an outbound call and   *)
(* not in a back-off wait, and the step that cancels it starts no outbound *)
(* call and no back-off wait.                                              *)
(***************************************************************************)
CancelStops ==
    [][\A t \in Tasks :
        /\ tasks'[t].cancelled => tasks'[t].pc = "cancelled"
        /\ (tasks'[t].cancelled /\ ~tasks[t].cancelled) =>
              /\ tasks'[t].delivery.calls = tasks[t].delivery.calls
              /\ tasks'[t].delivery.waits = tasks[t].delivery.waits
              /\ tasks'[t].delivery.attempts = tasks[t].delivery.attempts]_vars

\* a call cancelled during its second outbound call, with a third attempt
\* still allowed
CancelStopsWitness ==
    \E t \in Tasks :
        /\ tasks[t].pc = "cancelled"
        /\ tasks[t].webhook.retry_count = 3
        /\ tasks[t].delivery.calls = 2
        /\ Len(tasks[t].delivery.answers) = 1
        /\ tasks[t].delivery.waits = <<1>>

(***************************************************************************)
(* C29: the request of every outbound call has the headers X-Webhook-Id,   *)
(* X-Event-Id, X-Event-Type and X-Signature (header names do not           *)
(* distinguish case), X-Signature is the HMAC-SHA256 of the body under the *)
(* subscription's secret, and no header carries the secret itself.         *)
(***************************************************************************)
HmacSha256(key, msg) == "hmac-sha256(" \o key \o "," \o msg \o ")"

RequestIsSigned ==
    \A t \in Tasks :
        tasks[t].pc = "post" =>
            LET rq == Request(tasks[t].webhook, tasks[t].event) IN
            /\ {"X-Webhook-ID", "X-Event-ID", "X-Event-Type", "X-Signature"}
                    \subseteq DOMAIN rq.headers
            /\ rq.headers["X-Signature"]
                    = HmacSha256(tasks[t].webhook.secret, rq.json)
            /\ \A h \in DOMAIN rq.headers :
                    rq.headers[h] # tasks[t].webhook.secret

(***************************************************************************)
(* C30: register_webhook with a url that is not a well-formed absolute URL *)
(* fails and leaves the registry as it was, so every subscription in the   *)
(* registry has a well-formed absolute URL; a subscription that is stored  *)
(* is active when stored and its id differs from every other one.         *)
(***************************************************************************)
WellFormedAbsolute(url) == url \in Urls

OnlyValidTargets ==
    /\ \A i \in 1..Len(webhooks) : WellFormedAbsolute(webhooks[i].url)
    /\ \A i, j \in 1..Len(webhooks) : i # j => webhooks[i].id # webhooks[j].id

(***************************************************************************)
(* C31: a recorded delivery with completed_at set has no error, and        *)
(* get_delivery_status counts no completed delivery as failed: the         *)
(* deliveries it counts as failed are among those that did not complete.   *)
(***************************************************************************)
CompletedHasNoError ==
    /\ \A j \in 1..Len(deliveries) :
            deliveries[j].completed_at # None => deliveries[j].error = None
    /\ \A id \in 1..MaxWebhooks :
            GetDeliveryStatus(id).failed
                <= Cardinality({j \in RecordsOf(id) :
                                    deliveries[j].completed_at = None})

(***************************************************************************)
(* C32: a delivery recorded with next_retry set is eventually attempted    *)
(* again: an outbound call for its subscription and its event is started   *)
(* after it was recorded.                                                  *)
(***************************************************************************)
AwaitsRetry(j) ==
    j <= Len(deliveries) /\ deliveries[j].next_retry # None

AttemptedAgain(j) ==
    /\ j <= Len(deliveries)
    /\ \E t \in Tasks :
        /\ tasks[t].pc = "post"
        /\ tasks[t].webhook.id = deliveries[j].webhook_id
        /\ tasks[t].event.id = deliveries[j].event_id

RetryEventually ==
    \A j \in 1..MaxRegistered : AwaitsRetry(j) ~> AttemptedAgain(j)

(***************************************************************************)
(* C33: the breaker leaves open only to half-open and only after           *)
(* recovery_timeout has passed since the last failure, and while it is     *)
(* open no step clears failure_count, also when calls overlap.             *)
(***************************************************************************)
LeavesOpenByProbeOnly ==
    [][state = "open" =>
        /\ state' \in {"open", "half-open"}
        /\ state' = "half-open" =>
                now - last_failure_time[1] >= recovery_timeout
        /\ failure_count' >= failure_count]_vars

(***************************************************************************)
(* C34: when the protected function raises an exception that is not an     *)
(* expected_exception, call raises and that step leaves state,             *)
(* failure_count and last_failure_time as they are; a call that arrives at *)
(* a half-open breaker is admitted and the breaker stays half-open.        *)
(***************************************************************************)
EndsUnexpectedly(c) ==
    /\ callers[c].pc = "running"
    /\ callers'[c].pc # "running"
    /\ history' = Append(history, "unexpected")

UnexpectedLeavesBreaker ==
    [][\A c \in Callers :
        /\ EndsUnexpectedly(c) =>
              /\ callers'[c].pc = "raised"
              /\ state' = state
              /\ failure_count' = failure_count
              /\ last_failure_time' = last_failure_time
        /\ (state = "half-open" /\ Arrives(c)) =>
              /\ callers'[c].pc = "running"
              /\ state' = "half-open"]_vars

\* the probe of a half-open breaker has ended with an unexpected exception,
\* the breaker is still half-open and has admitted another call
UnexpectedLeavesBreakerWitness ==
    /\ state = "half-open"
    /\ history # <<>>
    /\ history[Len(history)] = "unexpected"
    /\ \E c, c2 \in Callers :
        /\ callers[c].pc = "raised"
        /\ callers[c].admitted = "half-open"
        /\ callers[c2].pc = "running"
        /\ callers[c2].admitted = "half-open"

(***************************************************************************)
(* C35: with calls that do not overlap, a closed breaker has               *)
(* failure_count < failure_threshold, and an open or half-open breaker has *)
(* failure_count >= failure_threshold and last_failure_time set.           *)
(***************************************************************************)
BreakerConsistent ==
    /\ state = "closed" => failure_count < failure_threshold
    /\ state \in {"open", "half-open"} =>
            /\ failure_count >= failure_threshold
            /\ last_failure_time # None

\* a breaker of threshold 2 that has opened, has become half-open and whose
\* probe has failed
BreakerConsistentWitness ==
    /\ failure_threshold = 2
    /\ state = "open"
    /\ failure_count = 3
    /\ \E c \in Callers : callers[c].admitted = "half-open"

(***************************************************************************)
(* C36: every recorded delivery has exactly one of completed_at and        *)
(* next_retry set, and for every subscription get_delivery_status reports  *)
(* successful + pending = total_deliveries.                                *)
(***************************************************************************)
CompletedXorPending ==
    /\ \A j \in 1..Len(deliveries) :
            (deliveries[j].completed_at # None) # (deliveries[j].next_retry # None)
    /\ \A id \in 1..MaxWebhooks :
            LET st == GetDeliveryStatus(id) IN
            st.successful + st.pending = st.total_deliveries

\* a trigger has returned with one delivery that succeeded and one that
\* did not
CompletedXorPendingWitness ==
    /\ NoneSuspended
    /\ Len(deliveries) = 2
    /\ GetDeliveryStatus(1).successful = 1
    /\ GetDeliveryStatus(1).pending = 0
    /\ GetDeliveryStatus(2).successful = 0
    /\ GetDeliveryStatus(2).pending = 1

(***************************************************************************)
(* C37: in a run of calls that do not overlap, from a fresh bucket of      *)
(* capacity N = rate at time 0, the calls granted up to any call made at   *)
(* time T number at most N + T * N / period.  (Both sides times period.)   *)
(***************************************************************************)
GrantedUpTo(k) == {j \in 1..k : log[j].ok}

GrantsWithinRate ==
    \A k \in 1..Len(log) :
        Cardinality(GrantedUpTo(k)) * period <= rate * period + log[k].t * rate

\* rate 2 and period 2: two calls granted at time 0 and a third at time 1,
\* which is all the bound allows (2 + 1 * 2 / 2 = 3), and a fourth denied
GrantsWithinRateWitness ==
    /\ rate = 2
    /\ period = 2
    /\ Len(log) = 4
    /\ log[3].t = 1
    /\ log[4].t = 1
    /\ [k \in 1..4 |-> log[k].ok] = <<TRUE, TRUE, TRUE, FALSE>>

(***************************************************************************)
(* C38: when every outbound call returns or times out, a trigger_event     *)
(* that is running eventually returns; and no delivery makes more than     *)
(* retry_count outbound calls or takes more than retry_count - 1 back-off  *)
(* waits, whatever the endpoints answer.                                   *)
(***************************************************************************)
LoopBounded(tk) ==
    tk.pc \in {"post", "sleep", "done"} =>
        /\ tk.delivery.calls <= tk.webhook.retry_count
        /\ Len(tk.delivery.waits) <= tk.webhook.retry_count - 1
        /\ \A i \in 1..Len(tk.deliveries) :
              /\ tk.deliveries[i].calls <= MaxRetry
              /\ Len(tk.deliveries[i].waits) <= tk.deliveries[i].calls - 1

TriggerTerminates ==
    /\ [](\A t \in Tasks : LoopBounded(tasks[t]))
    /\ \A t \in Tasks : Suspended(t) ~> (tasks[t].pc = "done")

\* a trigger has returned after a delivery that used all three calls and
\* both back-off waits
TriggerTerminatesWitness ==
    \E t \in Tasks :
        /\ tasks[t].pc = "done"
        /\ tasks[t].webhook.retry_count = 3
        /\ Len(tasks[t].deliveries) >= 1
        /\ tasks[t].delivery.calls = 3
        /\ tasks[t].delivery.waits = <<1, 2>>

====
